---- MODULE Spec2Model ----
(***************************************************************************)
(* Model of scripts/collect_finviz_features.py: the three scalar parsers,  *)
(* the field map, the row built per ticker, the collection loop of         *)
(* collect_quote_features and the command-line entry point main.           *)
(*                                                                         *)
(* A Python str is a sequence of one-character strings.  A Python float or *)
(* None coming out of a parser is a record [kind, neg, mant, scale]: kind  *)
(* "num" is the decimal number (-1)^neg * mant * 10^-scale with the        *)
(* trailing zeros of the fraction removed, kind "nan" is float NaN, kind   *)
(* "None" is None, and the kinds "ValueError" and "IndexError" are an      *)
(* exception leaving the expression.                                       *)
(***************************************************************************)
EXTENDS Integers, Sequences, FiniteSets, TLC

VARIABLES
    pc,        \* position of the running call
    raw,       \* argument handed to a scalar parser
    result,    \* what parse_float / parse_percent returned (or raised)
    pair,      \* what parse_high_low returned: <<price, pct>>
    again,     \* parse_float(str(result)), the second pass of a round trip
    entry,     \* "main" when collect was entered from the CLI, "direct" otherwise
    argv,      \* the --tickers argument of the run
    dumpRaw,   \* the --dump-raw flag of the run
    tickers,   \* the ticker list collect_quote_features iterates
    calls,     \* symbols passed to the quote source, in call order
    quotes,    \* RawQuotes the quote source returned, in call order
    builtAt,   \* clock value at the moment each row was appended
    rows,      \* the list `rows` of collect_quote_features
    clock,     \* the wall clock (UTC), advancing on its own
    df,        \* the DataFrame returned, as a sequence of rows; <<>> before
    raised,    \* the exception that left the run, "" when none
    exitCode,  \* process exit status, -1 while running
    message,   \* text given to SystemExit
    files      \* names of the files written under the output directory

vars == <<pc, raw, result, pair, again, entry, argv, dumpRaw, tickers, calls,
          quotes, builtAt, rows, clock, df, raised, exitCode, message, files>>

parserVars == <<raw, result, pair, again>>
runVars == <<entry, argv, dumpRaw, tickers, calls, quotes, builtAt, rows,
             clock, df, raised, exitCode, message, files>>

-----------------------------------------------------------------------------
(* Bounds of the model. *)

\* longest text handed to a scalar parser, all texts over Alphabet up to it
MaxLen == 3
\* longest ticker list of a direct call of collect_quote_features
MaxTickers == 2
\* largest clock value; the clock starts at 0
MaxClock == 2
\* longest --tickers argument, all texts over ArgAlphabet up to it
MaxArgLen == 3

-----------------------------------------------------------------------------
(* Python str operations. *)

\* characters of the raw values: digits, point, comma, sign, percent, blank
\* and the letters that spell nan in several casings
Alphabet == {"0", "1", ".", ",", "-", "%", " ", "n", "a", "N"}

Whitespace == {" "}
Digits == {"0", "1"}

\* None where the code holds `str | None`: no text equals it
NoneRaw == <<"None">>

Strings(alphabet, n) == UNION {[1..k -> alphabet] : k \in 0..n}

RECURSIVE LStrip(_)
LStrip(s) ==
    IF s # <<>> /\ Head(s) \in Whitespace THEN LStrip(Tail(s)) ELSE s

RECURSIVE RStrip(_)
RStrip(s) ==
    IF s # <<>> /\ s[Len(s)] \in Whitespace
    THEN RStrip(SubSeq(s, 1, Len(s) - 1))
    ELSE s

\* str.strip()
Strip(s) == RStrip(LStrip(s))

\* str.replace(",", "")
RemoveCommas(s) == SelectSeq(s, LAMBDA c : c # ",")

UpperChar(c) ==
    CASE c = "a" -> "A"
      [] c = "b" -> "B"
      [] c = "n" -> "N"
      [] OTHER -> c

\* str.upper()
Upper(s) == [k \in 1..Len(s) |-> UpperChar(s[k])]

\* str.split(): the maximal runs of non-whitespace, in order
RECURSIVE Split(_)
Split(s) ==
    LET t == LStrip(s) IN
    IF t = <<>> THEN <<>>
    ELSE LET stops == {k \in 1..Len(t) : t[k] \in Whitespace}
             end == IF stops = {} THEN Len(t) + 1
                    ELSE CHOOSE k \in stops : \A j \in stops : k <= j
         IN <<SubSeq(t, 1, end - 1)>> \o Split(SubSeq(t, end, Len(t)))

\* str.split(","): the pieces between commas, empty pieces kept
RECURSIVE SplitComma(_)
SplitComma(s) ==
    LET stops == {k \in 1..Len(s) : s[k] = ","} IN
    IF stops = {} THEN <<s>>
    ELSE LET end == CHOOSE k \in stops : \A j \in stops : k <= j
         IN <<SubSeq(s, 1, end - 1)>> \o SplitComma(SubSeq(s, end + 1, Len(s)))

-----------------------------------------------------------------------------
(* Python float values, float(text) and str(float). *)

None == [kind |-> "None", neg |-> FALSE, mant |-> 0, scale |-> 0]
NaN == [kind |-> "nan", neg |-> FALSE, mant |-> 0, scale |-> 0]
ValueError == [kind |-> "ValueError", neg |-> FALSE, mant |-> 0, scale |-> 0]
IndexError == [kind |-> "IndexError", neg |-> FALSE, mant |-> 0, scale |-> 0]

IsExc(v) == v.kind \in {"ValueError", "IndexError"}

DigitVal(c) == IF c = "1" THEN 1 ELSE 0

RECURSIVE DigitsToNat(_)
DigitsToNat(s) ==
    IF s = <<>> THEN 0
    ELSE 10 * DigitsToNat(SubSeq(s, 1, Len(s) - 1)) + DigitVal(s[Len(s)])

RECURSIVE Normalise(_, _)
Normalise(m, k) ==
    IF k > 0 /\ m % 10 = 0 THEN Normalise(m \div 10, k - 1) ELSE <<m, k>>

Num(neg, m, k) ==
    LET n == Normalise(m, k)
    IN [kind |-> "num", neg |-> neg, mant |-> n[1], scale |-> n[2]]

AllDigits(s) == \A k \in 1..Len(s) : s[k] \in Digits

\* unsigned decimal literal: digits [ "." digits ] or "." digits, at least one digit
FloatUnsigned(neg, s) ==
    LET dots == {k \in 1..Len(s) : s[k] = "."} IN
    IF dots = {} THEN
        IF s # <<>> /\ AllDigits(s) THEN Num(neg, DigitsToNat(s), 0) ELSE ValueError
    ELSE LET d == CHOOSE k \in dots : \A j \in dots : k <= j
             ip == SubSeq(s, 1, d - 1)
             fp == SubSeq(s, d + 1, Len(s))
         IN IF AllDigits(ip) /\ AllDigits(fp) /\ Len(ip) + Len(fp) > 0
            THEN Num(neg, DigitsToNat(ip \o fp), Len(fp))
            ELSE ValueError

\* float(text): surrounding whitespace ignored, optional sign, then a decimal
\* literal or the word nan in any letter case; anything else is ValueError
Float(s) ==
    LET t == Strip(s)
        neg == t # <<>> /\ Head(t) = "-"
        body == IF neg THEN Tail(t) ELSE t
    IN IF Upper(body) = <<"N", "A", "N">> THEN NaN
       ELSE FloatUnsigned(neg, body)

DigitChar(d) == IF d = 1 THEN "1" ELSE "0"

RECURSIVE NatToDigits(_)
NatToDigits(m) ==
    IF m < 10 THEN <<DigitChar(m)>>
    ELSE NatToDigits(m \div 10) \o <<DigitChar(m % 10)>>

RECURSIVE PadLeft(_, _)
PadLeft(s, n) == IF Len(s) >= n THEN s ELSE PadLeft(<<"0">> \o s, n)

\* str(x) of a float: "nan", or sign, integer digits, point and at least one
\* fraction digit (the positional form, which is the one float repr uses for
\* every magnitude a text of fewer than six characters can denote)
Str(v) ==
    IF v.kind = "nan" THEN <<"n", "a", "n">>
    ELSE LET ds == PadLeft(NatToDigits(v.mant), v.scale + 1)
             cut == Len(ds) - v.scale
             fp == SubSeq(ds, cut + 1, Len(ds))
         IN (IF v.neg THEN <<"-">> ELSE <<>>)
            \o SubSeq(ds, 1, cut) \o <<".">>
            \o (IF fp = <<>> THEN <<"0">> ELSE fp)

-----------------------------------------------------------------------------
(* Helper parsers. *)

\* the set literal {"", "-", "NaN", "nan"} of the three parsers
SentinelTexts == {<<>>, <<"-">>, <<"N", "a", "N">>, <<"n", "a", "n">>}

\* try: return float(text) / except ValueError: return None
NoTryFloat(text) == Float(text)
TryFloat(text) ==
    LET r == Float(text) IN IF r.kind = "ValueError" THEN None ELSE r

ParseFloat(value) ==
    IF value = NoneRaw THEN None
    ELSE LET text == Strip(value) IN
         IF text \in SentinelTexts THEN None
         ELSE TryFloat(RemoveCommas(text))

ParsePercent(value) ==
    IF value = NoneRaw THEN None
    ELSE LET text == Strip(value) IN
         IF text \in SentinelTexts THEN None
         ELSE LET t2 == IF text[Len(text)] = "%"
                        THEN SubSeq(text, 1, Len(text) - 1)
                        ELSE text
              IN TryFloat(RemoveCommas(t2))

\* parse_percent(parts[1]) if len(parts) > 1 else None
HighLowPctFloat(parts) == IF Len(parts) > 1 THEN ParseFloat(parts[2]) ELSE None
HighLowPct(parts) == IF Len(parts) > 1 THEN ParsePercent(parts[2]) ELSE None

ParseHighLow(value) ==
    IF value = NoneRaw THEN <<None, None>>
    ELSE LET text == Strip(value) IN
         IF text \in SentinelTexts THEN <<None, None>>
         ELSE LET parts == Split(text)
                  price == IF parts # <<>> THEN ParseFloat(parts[1]) ELSE None
              IN <<price, HighLowPct(parts)>>

-----------------------------------------------------------------------------
(* Field mapping. *)

\* source field, target column, parser; in declaration order
COMMON_FIELD_MAP == <<
    <<"Price", "price", "parse_float">>,
    <<"Change", "change_pct", "parse_percent">>,
    <<"P/E", "pe", "parse_float">>,
    <<"Forward P/E", "forward_pe", "parse_float">>,
    <<"PEG", "peg", "parse_float">>,
    <<"EPS this Y", "eps_growth_this_year_pct", "parse_percent">>,
    <<"EPS next Y", "eps_next_year", "parse_float">>,
    <<"EPS next 5Y", "eps_next_5y_pct", "parse_percent">>,
    <<"Sales Y/Y TTM", "sales_yoy_ttm_pct", "parse_percent">>,
    <<"EPS Q/Q", "eps_qoq_pct", "parse_percent">>,
    <<"Sales Q/Q", "sales_qoq_pct", "parse_percent">>,
    <<"ROE", "roe_pct", "parse_percent">>,
    <<"ROIC", "roic_pct", "parse_percent">>,
    <<"Gross Margin", "gross_margin_pct", "parse_percent">>,
    <<"Oper. Margin", "oper_margin_pct", "parse_percent">>,
    <<"Profit Margin", "profit_margin_pct", "parse_percent">>,
    <<"Debt/Eq", "debt_to_equity", "parse_float">>,
    <<"LT Debt/Eq", "lt_debt_to_equity", "parse_float">>,
    <<"Current Ratio", "current_ratio", "parse_float">>,
    <<"Quick Ratio", "quick_ratio", "parse_float">>,
    <<"Short Float", "short_float_pct", "parse_percent">>,
    <<"Short Ratio", "short_ratio", "parse_float">>,
    <<"Insider Own", "insider_own_pct", "parse_percent">>,
    <<"Insider Trans", "insider_trans_pct", "parse_percent">>,
    <<"Inst Own", "institutional_own_pct", "parse_percent">>,
    <<"Inst Trans", "institutional_trans_pct", "parse_percent">>,
    <<"Perf Week", "perf_week_pct", "parse_percent">>,
    <<"Perf Month", "perf_month_pct", "parse_percent">>,
    <<"SMA20", "sma20_pct", "parse_percent">>,
    <<"SMA50", "sma50_pct", "parse_percent">>,
    <<"SMA200", "sma200_pct", "parse_percent">>,
    <<"RSI (14)", "rsi_14", "parse_float">>
>>

\* source field, price column, distance column
HIGH_LOW_FIELDS == <<
    <<"52W High", "52w_high_price", "52w_high_distance_pct">>,
    <<"52W Low", "52w_low_price", "52w_low_distance_pct">>
>>

\* dict.get(key): the value, or None when the key is absent
Get(fundament, key) ==
    IF key \in DOMAIN fundament THEN fundament[key] ELSE NoneRaw

ApplyParser(parser, value) ==
    IF parser = "parse_float" THEN ParseFloat(value) ELSE ParsePercent(value)

\* row[col] = v
SetItem(row, col, v) == (col :> v) @@ row

\* the entries `for field, (col, parser) in COMMON_FIELD_MAP.items()` visits
FieldsWalkedPresent(fundament) ==
    {k \in 1..Len(COMMON_FIELD_MAP) : COMMON_FIELD_MAP[k][1] \in DOMAIN fundament}
FieldsWalked(fundament) == 1..Len(COMMON_FIELD_MAP)

RECURSIVE WithCommonFields(_, _, _)
WithCommonFields(row, fundament, k) ==
    IF k > Len(COMMON_FIELD_MAP) THEN row
    ELSE LET e == COMMON_FIELD_MAP[k]
             next == IF k \in FieldsWalked(fundament)
                     THEN SetItem(row, e[2], ApplyParser(e[3], Get(fundament, e[1])))
                     ELSE row
         IN WithCommonFields(next, fundament, k + 1)

RECURSIVE WithHighLowFields(_, _, _)
WithHighLowFields(row, fundament, k) ==
    IF k > Len(HIGH_LOW_FIELDS) THEN row
    ELSE LET e == HIGH_LOW_FIELDS[k]
             pp == ParseHighLow(Get(fundament, e[1]))
         IN WithHighLowFields(SetItem(SetItem(row, e[2], pp[1]), e[3], pp[2]),
                              fundament, k + 1)

\* the dict literal that opens the row
RowHead(ticker, fundament) ==
    [c \in {"ticker", "sector", "industry", "country"} |->
        CASE c = "ticker" -> Upper(ticker)
          [] c = "sector" -> Get(fundament, "Sector")
          [] c = "industry" -> Get(fundament, "Industry")
          [] c = "country" -> Get(fundament, "Country")]

\* the row appended for one ticker
BuildRow(ticker, fundament) ==
    WithHighLowFields(
        WithCommonFields(RowHead(ticker, fundament), fundament, 1),
        fundament, 1)

NumericColumns ==
    {COMMON_FIELD_MAP[k][2] : k \in 1..Len(COMMON_FIELD_MAP)}
    \cup {HIGH_LOW_FIELDS[k][2] : k \in 1..Len(HIGH_LOW_FIELDS)}
    \cup {HIGH_LOW_FIELDS[k][3] : k \in 1..Len(HIGH_LOW_FIELDS)}

\* an exception raised by a parser leaves the loop body
RowRaises(row) ==
    \E c \in (DOMAIN row) \cap NumericColumns : IsExc(row[c])

-----------------------------------------------------------------------------
(* Inputs. *)

\* price and percent tokens joined into the two-token texts of the 52W fields
PriceTokens ==
    {<<"1", ".", "0", "1">>, <<"1", ",", "0">>, <<"-">>, <<"N", "a", "n">>}
PctTokens ==
    {<<"-", "1", ".", "1", "0", "%">>, <<"1", "%">>, <<"-">>, <<"n", "a", "n">>,
     <<"1", ".", "1">>, <<"%">>}
TokenGaps == {<<" ">>, <<" ", " ">>}
TokenTails == {<<>>, <<" ", "1">>}
TwoTokenTexts ==
    {p \o g \o q \o t :
        p \in PriceTokens, g \in TokenGaps, q \in PctTokens, t \in TokenTails}

\* what a scalar parser may be handed: None, every short text, two-token texts
ParserInputs == {NoneRaw} \cup Strings(Alphabet, MaxLen) \cup TwoTokenTexts

\* characters of the --tickers argument
ArgAlphabet == {"a", "B", " ", ","}

\* a longer argument naming three tickers, one of them twice
LongArgs == {<<"a", ",", " ", "B", ",", "a">>}

\* what --tickers may hold
ArgInputs == Strings(ArgAlphabet, MaxArgLen) \cup LongArgs

\* tickers of a direct call: normalised, lower-case, padded with blanks
TickerSamples == {<<"A", "B">>, <<"a", "b">>, <<" ", "a", " ">>}

TickerLists == UNION {[1..k -> TickerSamples] : k \in 0..MaxTickers}

AllSourceFields ==
    {"Sector", "Industry", "Country"}
    \cup {COMMON_FIELD_MAP[k][1] : k \in 1..Len(COMMON_FIELD_MAP)}
    \cup {HIGH_LOW_FIELDS[k][1] : k \in 1..Len(HIGH_LOW_FIELDS)}

ParserOf(field) ==
    IF \E k \in 1..Len(COMMON_FIELD_MAP) : COMMON_FIELD_MAP[k][1] = field
    THEN (CHOOSE e \in {COMMON_FIELD_MAP[k] : k \in 1..Len(COMMON_FIELD_MAP)} :
              e[1] = field)[3]
    ELSE IF field \in {"Sector", "Industry", "Country"} THEN "text"
    ELSE "parse_high_low"

\* a quote with every field present and well formed
FullQuote ==
    [f \in AllSourceFields |->
        CASE ParserOf(f) = "text" -> <<"T", "e", "c", "h">>
          [] ParserOf(f) = "parse_float" -> <<"1", ",", "0", "1", ".", "1">>
          [] ParserOf(f) = "parse_percent" -> <<"-", "1", ".", "1", "%">>
          [] OTHER -> <<"1", ".", "0", "1", " ", "-", "1", ".", "1", "0", "%">>]

\* a quote with nothing but the sector
SectorOnlyQuote == [f \in {"Sector"} |-> <<"T", "e", "c", "h">>]

\* a quote with a few fields, holding sentinels and unparsable text
SparseQuote ==
    [f \in {"Country", "Price", "Change", "P/E", "ROE", "52W High", "52W Low"} |->
        CASE f = "Country" -> <<"U", "S">>
          [] f = "Price" -> <<"-">>
          [] f = "Change" -> <<"1", "0", "%">>
          [] f = "P/E" -> <<"n", "/", "a">>
          [] f = "ROE" -> <<"%">>
          [] f = "52W High" -> <<"1", "1">>
          [] OTHER -> <<"-", " ", "-">>]

EmptyQuote == [f \in {} |-> <<>>]

\* what the quote source may return for a ticker
QuoteSamples == {EmptyQuote, SectorOnlyQuote, SparseQuote, FullQuote}

-----------------------------------------------------------------------------
(* The scalar parsers called on one input. *)

RunStart ==
    /\ entry = "" /\ argv = <<>> /\ dumpRaw = FALSE /\ tickers = <<>>
    /\ calls = <<>> /\ quotes = <<>> /\ builtAt = <<>> /\ rows = <<>>
    /\ clock = 0 /\ df = <<>> /\ raised = "" /\ exitCode = -1
    /\ message = "" /\ files = {}

ParserStart ==
    /\ result = None /\ pair = <<None, None>> /\ again = None

InitParse ==
    /\ pc = "input"
    /\ raw \in ParserInputs
    /\ ParserStart
    /\ RunStart

CallParseFloat ==
    /\ pc = "input"
    /\ result' = ParseFloat(raw)
    /\ pc' = IF IsExc(result') THEN "raised" ELSE "float"
    /\ UNCHANGED <<raw, pair, again>>
    /\ UNCHANGED runVars

CallParsePercent ==
    /\ pc = "input"
    /\ result' = ParsePercent(raw)
    /\ pc' = IF IsExc(result') THEN "raised" ELSE "percent"
    /\ UNCHANGED <<raw, pair, again>>
    /\ UNCHANGED runVars

CallParseHighLow ==
    /\ pc = "input"
    /\ pair' = ParseHighLow(raw)
    /\ pc' = IF IsExc(pair'[1]) \/ IsExc(pair'[2]) THEN "raised" ELSE "highlow"
    /\ UNCHANGED <<raw, result, again>>
    /\ UNCHANGED runVars

\* parse_float(str(y)) for a result y of parse_float that is not None
Reparse ==
    /\ pc = "float"
    /\ result # None
    /\ again' = ParseFloat(Str(result))
    /\ pc' = IF IsExc(again') THEN "raised" ELSE "refloat"
    /\ UNCHANGED <<raw, result, pair>>
    /\ UNCHANGED runVars

NextParse ==
    \/ CallParseFloat
    \/ CallParsePercent
    \/ CallParseHighLow
    \/ Reparse

SpecParse == InitParse /\ [][NextParse]_vars

-----------------------------------------------------------------------------
(* A collection run: main, or a direct call of collect_quote_features. *)

\* t.strip().upper()
NormaliseTickerNoUpper(t) == Strip(t)
NormaliseTicker(t) == Upper(Strip(t))

\* the filter `if t.strip()` of the list comprehension
KeepAll(t) == TRUE
KeepTicker(t) == Strip(t) # <<>>

RECURSIVE Comprehend(_)
Comprehend(pieces) ==
    IF pieces = <<>> THEN <<>>
    ELSE (IF KeepTicker(Head(pieces))
          THEN <<NormaliseTicker(Head(pieces))>>
          ELSE <<>>) \o Comprehend(Tail(pieces))

\* [t.strip().upper() for t in args.tickers.split(",") if t.strip()]
ParseTickers(arg) == Comprehend(SplitComma(arg))

RECURSIVE Dedup(_)
Dedup(ts) ==
    IF ts = <<>> THEN <<>>
    ELSE LET init == Dedup(SubSeq(ts, 1, Len(ts) - 1))
             last == ts[Len(ts)]
         IN IF \E k \in 1..Len(init) : init[k] = last THEN init
            ELSE Append(init, last)

\* the sequence `for ticker in tickers` walks
LoopTickersDedup(ts) == Dedup(ts)
LoopTickers(ts) == ts

\* the symbol handed to finvizfinance(ticker)
SymbolPassed(ticker) == ticker

\* the value df.insert(1, "snapshot_utc", ...) puts in row k: one clock reading
\* `now` for the whole column
StampPerRow(k, now, at) == at[k]
StampFor(k, now, at) == now

\* pd.DataFrame(rows) followed by df.insert(1, "snapshot_utc", now)
InsertSnapshotUtc(rs, now, at) ==
    [k \in 1..Len(rs) |-> SetItem(rs[k], "snapshot_utc", StampFor(k, now, at))]

\* where a failed quote-source call leaves the loop: nothing catches it
AfterFailureRetry == "loop"
AfterFailure == "raised"

Init ==
    /\ pc = "start"
    /\ raw = NoneRaw
    /\ ParserStart
    /\ RunStart

\* main up to the call of collect_quote_features
Main ==
    /\ pc = "start"
    /\ \E a \in ArgInputs, d \in BOOLEAN :
        /\ argv' = a
        /\ dumpRaw' = d
        /\ tickers' = ParseTickers(a)
    /\ entry' = "main"
    /\ IF tickers' = <<>>
       THEN /\ pc' = "exit"
            /\ exitCode' = 1
            /\ message' = "No tickers provided"
       ELSE /\ pc' = "loop"
            /\ UNCHANGED <<exitCode, message>>
    /\ UNCHANGED <<calls, quotes, builtAt, rows, clock, df, raised, files>>
    /\ UNCHANGED parserVars

\* collect_quote_features called by another caller than main
DirectCall ==
    /\ pc = "start"
    /\ \E ts \in TickerLists : tickers' = ts
    /\ entry' = "direct"
    /\ pc' = "loop"
    /\ UNCHANGED <<argv, dumpRaw, calls, quotes, builtAt, rows, clock, df,
                   raised, exitCode, message, files>>
    /\ UNCHANGED parserVars

\* one pass of the loop body whose quote-source call returns a RawQuote
QuoteOk ==
    /\ pc = "loop"
    /\ Len(rows) < Len(LoopTickers(tickers))
    /\ \E q \in QuoteSamples :
        LET ticker == LoopTickers(tickers)[Len(rows) + 1]
            row == BuildRow(ticker, q)
        IN /\ calls' = Append(calls, SymbolPassed(ticker))
           /\ quotes' = Append(quotes, q)
           /\ IF RowRaises(row)
              THEN /\ raised' = "ParserError"
                   /\ pc' = "raised"
                   /\ exitCode' = IF entry = "main" THEN 1 ELSE exitCode
                   /\ UNCHANGED <<rows, builtAt>>
              ELSE /\ rows' = Append(rows, row)
                   /\ builtAt' = Append(builtAt, clock)
                   /\ UNCHANGED <<pc, raised, exitCode>>
    /\ UNCHANGED <<entry, argv, dumpRaw, tickers, clock, df, message, files>>
    /\ UNCHANGED parserVars

\* one pass of the loop body whose quote-source call fails
QuoteFail ==
    /\ pc = "loop"
    /\ Len(rows) < Len(LoopTickers(tickers))
    /\ calls' = Append(calls, SymbolPassed(LoopTickers(tickers)[Len(rows) + 1]))
    /\ raised' = "QuoteSourceError"
    /\ pc' = AfterFailure
    /\ exitCode' = IF entry = "main" /\ pc' = "raised" THEN 1 ELSE exitCode
    /\ UNCHANGED <<entry, argv, dumpRaw, tickers, quotes, builtAt, rows, clock,
                   df, message, files>>
    /\ UNCHANGED parserVars

\* the loop is over: the frame is built and stamped; inserting at position 1
\* into a frame without columns (no rows) is an IndexError
Frame ==
    /\ pc = "loop"
    /\ Len(rows) = Len(LoopTickers(tickers))
    /\ IF rows = <<>>
       THEN /\ raised' = "IndexError"
            /\ pc' = "raised"
            /\ exitCode' = IF entry = "main" THEN 1 ELSE exitCode
            /\ UNCHANGED df
       ELSE /\ df' = InsertSnapshotUtc(rows, clock, builtAt)
            /\ pc' = IF entry = "main" THEN "write" ELSE "returned"
            /\ UNCHANGED <<raised, exitCode>>
    /\ UNCHANGED <<entry, argv, dumpRaw, tickers, calls, quotes, builtAt, rows,
                   clock, message, files>>
    /\ UNCHANGED parserVars

\* main after collect_quote_features returned: the CSV, and the JSON mirror
\* under --dump-raw, both named with a second clock reading
Write ==
    /\ pc = "write"
    /\ files' = {<<"csv", clock>>}
                \cup (IF dumpRaw THEN {<<"json", clock>>} ELSE {})
    /\ pc' = "done"
    /\ exitCode' = 0
    /\ UNCHANGED <<entry, argv, dumpRaw, tickers, calls, quotes, builtAt, rows,
                   clock, df, raised, message>>
    /\ UNCHANGED parserVars

\* time passes while the run is under way
Tick ==
    /\ pc \in {"loop", "write"}
    /\ clock < MaxClock
    /\ clock' = clock + 1
    /\ UNCHANGED <<pc, entry, argv, dumpRaw, tickers, calls, quotes, builtAt,
                   rows, df, raised, exitCode, message, files>>
    /\ UNCHANGED parserVars

Next ==
    \/ Main
    \/ DirectCall
    \/ QuoteOk
    \/ QuoteFail
    \/ Frame
    \/ Write
    \/ Tick

Spec == Init /\ [][Next]_vars

-----------------------------------------------------------------------------
(* Properties. *)

LowerChar(c) ==
    CASE c = "A" -> "a"
      [] c = "B" -> "b"
      [] c = "N" -> "n"
      [] OTHER -> c

Lower(s) == [k \in 1..Len(s) |-> LowerChar(s[k])]

RowColumns == {"ticker", "sector", "industry", "country"} \cup NumericColumns

ReturnedKinds == {"None", "num", "nan"}

\* the pieces of the --tickers argument that hold a non-blank character
NonBlankPieces(arg) ==
    SelectSeq(SplitComma(arg), LAMBDA p : \E k \in 1..Len(p) : p[k] # " ")

\* the tickers as the caller gave them, before any normalisation
InputTickers == IF entry = "main" THEN NonBlankPieces(argv) ELSE tickers

\* the text up to the first blank
FirstToken(t) ==
    LET stops == {k \in 1..Len(t) : t[k] = " "} IN
    IF stops = {} THEN t
    ELSE SubSeq(t, 1, (CHOOSE k \in stops : \A j \in stops : k <= j) - 1)

\* C1: every row built has the key set ticker, sector, industry, country, all
\* target columns of the field map and both columns of every high/low field,
\* whatever fields the RawQuote held; a field absent from the RawQuote gives
\* None under its column(s).
C1_SchemaStable ==
    \A k \in 1..Len(rows) :
        /\ DOMAIN rows[k] = RowColumns
        /\ \A j \in 1..Len(COMMON_FIELD_MAP) :
              COMMON_FIELD_MAP[j][1] \notin DOMAIN quotes[k]
                  => rows[k][COMMON_FIELD_MAP[j][2]] = None
        /\ \A j \in 1..Len(HIGH_LOW_FIELDS) :
              HIGH_LOW_FIELDS[j][1] \notin DOMAIN quotes[k]
                  => /\ rows[k][HIGH_LOW_FIELDS[j][2]] = None
                     /\ rows[k][HIGH_LOW_FIELDS[j][3]] = None
        /\ "Sector" \notin DOMAIN quotes[k] => rows[k]["sector"] = NoneRaw
        /\ "Industry" \notin DOMAIN quotes[k] => rows[k]["industry"] = NoneRaw
        /\ "Country" \notin DOMAIN quotes[k] => rows[k]["country"] = NoneRaw

\* rows built from the empty mapping, from a partial one and from a full one
C1_Witness ==
    \E i, j, k \in 1..Len(rows) :
        /\ DOMAIN quotes[i] = {}
        /\ quotes[j] = SparseQuote
        /\ DOMAIN quotes[k] = AllSourceFields

\* C2: all rows of the frame one run returns carry the same snapshot_utc, even
\* when the clock advanced between the quote-source calls.
C2_OneTimestamp ==
    \A i, j \in 1..Len(df) : df[i]["snapshot_utc"] = df[j]["snapshot_utc"]

\* a frame of two rows built at different clock values
C2_Witness ==
    /\ Len(df) >= 2
    /\ builtAt[1] # builtAt[2]

\* C3 as stated: for a ticker list of length n on which every quote-source call
\* succeeds, collect calls the quote source n times in input order and returns
\* n rows, row i built from the i-th ticker and its RawQuote.
C3_Original ==
    (pc \in {"raised", "returned", "write", "done"} /\ raised # "QuoteSourceError")
        => /\ raised = ""
           /\ Len(df) = Len(tickers)
           /\ calls = tickers

\* C3 amended: the same for a ticker list that is not empty.
C3_OneRowPerTicker ==
    (/\ pc \in {"raised", "returned", "write", "done"}
     /\ raised # "QuoteSourceError"
     /\ tickers # <<>>)
        => /\ raised = ""
           /\ Len(calls) = Len(tickers)
           /\ Len(df) = Len(tickers)
           /\ \A k \in 1..Len(tickers) :
                 /\ calls[k] = tickers[k]
                 /\ df[k]["ticker"] = Upper(tickers[k])
                 /\ df[k]["sector"] = Get(quotes[k], "Sector")
                 /\ df[k]["price"] = ParseFloat(Get(quotes[k], "Price"))
                 /\ df[k]["change_pct"] = ParsePercent(Get(quotes[k], "Change"))

\* a frame returned for a list that names the same ticker twice, the two rows
\* built from different RawQuotes
C3_Witness ==
    /\ pc = "returned"
    /\ Len(tickers) >= 2
    /\ tickers[1] = tickers[2]
    /\ Len(df) = Len(tickers)
    /\ quotes[1] # quotes[2]

\* C4 as stated: for every input ticker, the symbol passed to the quote source
\* and the ticker value of the row are the trimmed, upper-cased input.
C4_Original ==
    \A k \in 1..Len(calls) :
        /\ calls[k] = Upper(Strip(InputTickers[k]))
        /\ k <= Len(rows) => rows[k]["ticker"] = Upper(Strip(InputTickers[k]))

\* C4 amended: main trims and upper-cases every non-blank entry of --tickers
\* before it calls collect, so on that path the symbol passed and the row's
\* ticker are the trimmed, upper-cased entry; collect itself passes each ticker
\* to the quote source as given and stores its upper-cased, untrimmed form.
C4_NormalisedByMain ==
    \A k \in 1..Len(calls) :
        /\ entry = "main" =>
              /\ calls[k] = Upper(Strip(InputTickers[k]))
              /\ k <= Len(rows) => rows[k]["ticker"] = Upper(Strip(InputTickers[k]))
        /\ entry = "direct" =>
              /\ calls[k] = tickers[k]
              /\ k <= Len(rows) => rows[k]["ticker"] = Upper(tickers[k])

\* a row built by a run of main whose entry had blanks and a lower-case letter
C4_Witness ==
    /\ entry = "main"
    /\ Len(rows) >= 1
    /\ InputTickers[1] # Strip(InputTickers[1])
    /\ Strip(InputTickers[1]) # Upper(Strip(InputTickers[1]))

\* C5: no parser ends in an exception: parse_float and parse_percent return a
\* float or None, parse_high_low a pair of such values.
C5_Total ==
    /\ pc # "raised"
    /\ result.kind \in ReturnedKinds
    /\ pair[1].kind \in ReturnedKinds
    /\ pair[2].kind \in ReturnedKinds
    /\ again.kind \in ReturnedKinds

\* a text that is no sentinel and not numeric came back as None
C5_Witness ==
    /\ pc \in {"float", "percent"}
    /\ raw # NoneRaw
    /\ Strip(raw) \notin {<<>>, <<"-">>, <<"n", "a", "n">>, <<"N", "a", "N">>}
    /\ \E k \in 1..Len(raw) : raw[k] \in {"%", "-", "n"}
    /\ result = None

\* C6 as stated: after trimming, "", "-" and nan in any letter case give None
\* from parse_float and parse_percent and (None, None) from parse_high_low.
C6_Original ==
    (raw # NoneRaw /\ Lower(Strip(raw)) \in {<<>>, <<"-">>, <<"n", "a", "n">>})
        => /\ pc \in {"float", "percent"} => result = None
           /\ pc = "highlow" => pair = <<None, None>>

\* C7 as stated: parse_float(str(parse_float(x))) = parse_float(x) whenever
\* parse_float(x) is not None.
C7_Original ==
    pc = "refloat" => again = result

C9_FailurePropagates ==
    raised = "QuoteSourceError"
        => /\ pc = "raised"
           /\ df = <<>>
           /\ files = {}
           /\ exitCode # 0
           /\ Len(calls) = Len(rows) + 1
           /\ \A k \in 1..Len(calls) : calls[k] = tickers[k]

\* the call failed after a row was built and with a ticker still to come
C9_Witness ==
    /\ raised = "QuoteSourceError"
    /\ Len(rows) >= 1
    /\ Len(calls) < Len(tickers)

\* C10: a --tickers argument without a non-blank entry ends the run with a
\* non-zero exit and a message, without a quote-source call or an output file.
C10_EmptyListFatal ==
    (entry = "main" /\ \A k \in 1..Len(argv) : argv[k] \in {" ", ","})
        => /\ pc = "exit"
           /\ exitCode # 0
           /\ message # ""
           /\ calls = <<>>
           /\ files = {}

\* main ended on an argument made of commas and blanks
C10_Witness ==
    /\ entry = "main"
    /\ Len(argv) >= 2
    /\ \E k \in 1..Len(argv) : argv[k] = ","
    /\ \E k \in 1..Len(argv) : argv[k] = " "
    /\ \A k \in 1..Len(argv) : argv[k] \in {" ", ","}
    /\ pc = "exit"

====
